---- MODULE Spec2Model ----
(***************************************************************************)
(* The session relay engine of src/server.js: the session registry, the    *)
(* join rate limiter, the agent-key validator, the per-connection message  *)
(* router, the close handler and the expiry sweeper.                       *)
(*                                                                         *)
(* Connections are 1..MaxConns and session codes are 1..NumCodes; 0 is     *)
(* JavaScript's null for both.  The clock `now` is Date.now() in ms.       *)
(***************************************************************************)
EXTENDS Integers, Sequences, FiniteSets, TLC

(* ------------------------------ bounds --------------------------------- *)
MaxConns == 2
NumCodes == 2
MaxIPs == 1
MaxTicks == 1
MaxSteps == 4
MaxRelaySteps == 4
MaxDeepSteps == 5
MaxJoinSteps == 2
MaxRateTicks == 3
MaxAuditCalls == 1002
MaxLiveSteps == 2

(* ------------------------- program constants --------------------------- *)
SESSION_TIMEOUT_MS == 600000
MAX_JOIN_ATTEMPTS == 5
RATE_LIMIT_WINDOW_MS == 60000
AuditCapacity == 1000

\* readyState values of a WebSocket
CONNECTING == 0
OPEN == 1
CLOSING == 2
CLOSED == 3

\* JavaScript null (connection or code), and an undefined number
Null == 0
Undefined == -1

Conns == 1..MaxConns
Codes == 1..NumCodes
IPs == 1..MaxIPs

VARIABLES
  readyState,      \* [Conns -> 0..3]      ws.readyState of each connection
  currentSession,  \* [Conns -> Codes+Null] the closure's currentSession
  role,            \* [Conns -> {"null","client","agent"}]
  sessions,        \* the sessions Map: live code -> session record
  sessionKeys,     \* the Map's iteration (insertion) order
  rateLimits,      \* the rateLimits Map: ip -> [attempts, windowStart]
  issued,          \* how many distinct codes generateSessionCode has returned
  now,             \* Date.now()
  ticks,           \* number of clock advances so far
  steps,           \* number of events handled so far
  sent,            \* the ws.send calls of the last handler, in order
  ev,              \* the last handler run and its outcome
  auditLog         \* the auditLog array

vars == <<readyState, currentSession, role, sessions, sessionKeys,
          rateLimits, issued, now, ticks, steps, sent, ev, auditLog>>

(* ------------------------------ helpers -------------------------------- *)

\* Map.set(k, v)
MapSet(m, k, v) == [x \in (DOMAIN m) \cup {k} |-> IF x = k THEN v ELSE m[x]]

\* Map.delete(k)
MapDelete(m, k) == [x \in (DOMAIN m) \ {k} |-> m[x]]

\* insertion order after Map.set(k, ...): a new key goes last, an old one stays
KeysSet(keys, k) ==
  IF \E i \in 1..Len(keys) : keys[i] = k THEN keys ELSE Append(keys, k)

\* insertion order after Map.delete(k)
KeysDelete(keys, k) == SelectSeq(keys, LAMBDA x : x # k)

\* Math.ceil(x / d) for x >= 0
CeilDiv(x, d) == (x + d - 1) \div d

\* one ws.send(msg) on connection `to`; delivered only if the socket is OPEN
Send(out, rs, to, msg) ==
  Append(out, [to |-> to, delivered |-> (rs[to] = OPEN), msg |-> msg])

\* what the last step handled: the event, the connection it came from, the
\* code and key it named, its outcome and a number it computed
Event(op, conn, code, key, result, n) ==
  [op |-> op, conn |-> conn, code |-> code, key |-> key, result |-> result,
   n |-> n]

(* --------------------------- rate limiter ------------------------------ *)

\* line 76: the window of `record` has expired at time t
WindowExpired(record, t) == t - record.windowStart > RATE_LIMIT_WINDOW_MS

\* line 82 with > for >=
OverLimitStrict(record) == record.attempts > MAX_JOIN_ATTEMPTS

\* line 82: the record is over the limit
OverLimit(record) == record.attempts >= MAX_JOIN_ATTEMPTS

\* line 83
RetryAfter(record, t) ==
  CeilDiv(record.windowStart + RATE_LIMIT_WINDOW_MS - t, 1000)

\* checkRateLimit(ip) at time t on the map `limits`: the returned object
\* (allowed, n = remaining or retryAfter) and the map afterwards
checkRateLimit(limits, ip, t) ==
  IF ip \notin DOMAIN limits \/ WindowExpired(limits[ip], t)
  THEN [allowed |-> TRUE, n |-> MAX_JOIN_ATTEMPTS - 1,
        limits |-> MapSet(limits, ip, [attempts |-> 1, windowStart |-> t])]
  ELSE IF OverLimit(limits[ip])
  THEN [allowed |-> FALSE, n |-> RetryAfter(limits[ip], t), limits |-> limits]
  ELSE [allowed |-> TRUE,
        n |-> MAX_JOIN_ATTEMPTS - (limits[ip].attempts + 1),
        limits |-> [limits EXCEPT ![ip].attempts = @ + 1]]

(* ------------------------- credential validator ------------------------ *)

\* line 13: the default AGENT_SECRET_KEY, one character per element
AGENT_SECRET_KEY ==
  <<"d","e","m","o","-","s","e","c","r","e","t","-","c","h","a","n","g","e",
    "-","i","n","-","p","r","o","d","u","c","t","i","o","n">>

\* a value of message.agentKey after JSON.parse: a string (its characters),
\* an array of numbers, or undefined when the field is absent
JSString(chars) == [type |-> "string", value |-> chars]
JSArray(items) == [type |-> "array", value |-> items]
JSUndefined == [type |-> "undefined", value |-> <<>>]

\* `!providedKey` (line 53): undefined and the empty string are falsy, every
\* array is truthy
Falsy(v) == v.type = "undefined" \/ (v.type = "string" /\ v.value = <<>>)

\* the UTF-8 byte of a character of the alphabet the keys are written in
Letters ==
  <<"a","b","c","d","e","f","g","h","i","j","k","l","m","n","o","p","q","r",
    "s","t","u","v","w","x","y","z">>
CharCodes ==
  [ch \in {Letters[i] : i \in 1..Len(Letters)} \cup {"-"} |->
     IF ch = "-" THEN 45 ELSE 96 + CHOOSE i \in 1..Len(Letters) : Letters[i] = ch]
CharCode(ch) == CharCodes[ch]

\* Buffer.from(v) (lines 57-58): the UTF-8 bytes of a string; of an array,
\* each number truncated to a byte
BufferFrom(v) ==
  IF v.type = "string"
  THEN [i \in 1..Len(v.value) |-> CharCode(v.value[i])]
  ELSE [i \in 1..Len(v.value) |-> v.value[i] % 256]

\* Buffer.from(AGENT_SECRET_KEY) (line 58): the bytes of the secret
SecretBytes == [i \in 1..Len(AGENT_SECRET_KEY) |-> CharCode(AGENT_SECRET_KEY[i])]

\* crypto.timingSafeEqual(a, b): throws on a length mismatch, else compares
\* every byte.  The result is "throw", "true" or "false".
timingSafeEqual(a, b) ==
  IF Len(a) # Len(b) THEN "throw"
  ELSE IF \A i \in 1..Len(a) : a[i] = b[i] THEN "true" ELSE "false"

\* validateAgentKey(providedKey) (lines 52-63); a throw is caught at line 60
validateAgentKey(providedKey) ==
  IF Falsy(providedKey) \/ AGENT_SECRET_KEY = <<>> THEN FALSE
  ELSE timingSafeEqual(BufferFrom(providedKey), SecretBytes) = "true"

\* the secret with its last character changed, and a proper prefix of it
WrongLastKey ==
  [AGENT_SECRET_KEY EXCEPT ![Len(AGENT_SECRET_KEY)] = "m"]
ShortKey == SubSeq(AGENT_SECRET_KEY, 1, Len(AGENT_SECRET_KEY) - 1)

\* the secret with character i changed
WrongAt(i) ==
  [AGENT_SECRET_KEY EXCEPT ![i] = IF @ = "x" THEN "y" ELSE "x"]

\* values a join-session message may carry as agentKey: none, the empty
\* string, the secret, the secret with one character changed, every proper
\* prefix of it, the secret with a character appended, and arrays of numbers
KeyInputs ==
  {JSUndefined, JSString(<<>>), JSString(AGENT_SECRET_KEY),
   JSString(WrongLastKey), JSString(ShortKey),
   JSString(Append(AGENT_SECRET_KEY, "x")),
   JSArray(<<>>), JSArray(SecretBytes),
   JSArray([SecretBytes EXCEPT ![1] = @ + 256]),
   JSArray([SecretBytes EXCEPT ![Len(SecretBytes)] = @ + 1])}
  \cup {JSString(WrongAt(i)) : i \in 1..Len(AGENT_SECRET_KEY)}
  \cup {JSString(SubSeq(AGENT_SECRET_KEY, 1, n)) : n \in 1..Len(AGENT_SECRET_KEY)}

\* the keys the join-session messages of the engine carry
JoinKeys == {JSString(AGENT_SECRET_KEY), JSString(WrongLastKey)}

(* --------------------------- code generator ---------------------------- *)

\* generateSessionCode() without the `sessions.has(code)` retry of lines 45-47
generateSessionCodeNoRetry(sess, used) == {code \in Codes : code <= used + 1}

\* generateSessionCode(): the codes a call may return while `sess` is the
\* registry; a random draw that is already in use is drawn again.  Codes
\* 1..used have been returned before; every code never returned before
\* behaves alike, so the next such code stands for all of them.
generateSessionCode(sess, used) ==
  {code \in Codes : code <= used + 1} \ DOMAIN sess

\* the codes a join-session message may name: the codes returned so far and
\* one code that has never been returned
JoinCodes(used) == {code \in Codes : code <= used + 1}

(* ---------------------------- session record --------------------------- *)

NullPage == "(null)"

\* lines 232-240
NewSession(c, t, ip) ==
  [client |-> c, agent |-> Null, page |-> NullPage, passwordLength |-> Undefined,
   cursor |-> <<>>, createdAt |-> t, expiresAt |-> t + SESSION_TIMEOUT_MS,
   clientIP |-> ip]

\* x || 0 for a number that may be undefined
OrZero(x) == IF x = Undefined THEN 0 ELSE x

\* JavaScript truthiness of session.page (line 316)
PageTruthy(page) == page # NullPage /\ page # ""

\* `conn && conn.readyState === WebSocket.OPEN` under the readyStates rs
IsOpen(rs, conn) == conn # Null /\ rs[conn] = OPEN

\* line 279: !session || !session.client
SessionMissing(sess, code) ==
  code \notin DOMAIN sess \/ sess[code].client = Null

\* line 293 with the readyState test inverted
AgentConnectedInverted(session, rs) ==
  session.agent # Null /\ rs[session.agent] # OPEN

\* line 293: the session already has an agent
AgentConnected(session, rs) == IsOpen(rs, session.agent)

\* line 122 with a session that has an agent counted as still in use
ExpiredUnlessJoined(session, t) == t > session.expiresAt /\ session.agent = Null

\* line 122 with >= for >
ExpiredAtOrAfter(session, t) == t >= session.expiresAt

\* line 122: the session has expired at time t
Expired(session, t) == t > session.expiresAt

\* getClientIP(ws, req) (lines 108-116): the origin of connection c.  Every
\* connection of the engine arrives from the same address.
clientIP(c) == 1

\* a connection whose 'message' events are still delivered
Receiving(c) == readyState[c] \in {OPEN, CLOSING}

(* ------------------------------- Init ---------------------------------- *)

\* The server is up and no connection has been accepted yet.
Init ==
  /\ readyState = [c \in Conns |-> CONNECTING]
  /\ currentSession = [c \in Conns |-> Null]
  /\ role = [c \in Conns |-> "null"]
  /\ sessions = <<>>
  /\ sessionKeys = <<>>
  /\ rateLimits = <<>>
  /\ issued = 0
  /\ now = 0
  /\ ticks = 0
  /\ steps = 0
  /\ sent = <<>>
  /\ ev = Event("init", Null, Null, <<>>, "", 0)
  /\ auditLog = <<>>

(* ------------------------- rate limiter alone -------------------------- *)

\* one call of checkRateLimit(ip)
CheckRateLimitCall(ip) ==
  LET r == checkRateLimit(rateLimits, ip, now) IN
  /\ rateLimits' = r.limits
  /\ ev' = Event("checkRateLimit", Null, ip, <<>>,
                 IF r.allowed THEN "allowed" ELSE "denied", r.n)
  /\ sent' = <<>>
  /\ UNCHANGED <<issued, readyState, currentSession, role, sessions,
                 sessionKeys, now, ticks>>

\* the clock advances by d ms
Tick(d, max) ==
  /\ ticks < max
  /\ now' = now + d
  /\ ticks' = ticks + 1
  /\ sent' = <<>>
  /\ ev' = Event("tick", Null, Null, <<>>, "", d)
  /\ UNCHANGED <<issued, readyState, currentSession, role, sessions,
                 sessionKeys, rateLimits>>

\* lines 142-149: the periodic sweep of old rate-limit records
RateLimitCleanup ==
  /\ rateLimits' = [ip \in {i \in DOMAIN rateLimits :
                       ~(now - rateLimits[i].windowStart > RATE_LIMIT_WINDOW_MS * 2)}
                     |-> rateLimits[ip]]
  /\ sent' = <<>>
  /\ ev' = Event("rate-cleanup", Null, Null, <<>>, "", 0)
  /\ UNCHANGED <<issued, readyState, currentSession, role, sessions,
                 sessionKeys, now, ticks>>

(* ----------------------------- connections ---------------------------- *)

\* wss.on('connection') (lines 218-221): a socket is accepted; its closure
\* starts unbound.  Connections are numbered in the order they are accepted.
Connect(c) ==
  /\ readyState[c] = CONNECTING
  /\ \A d \in Conns : d < c => readyState[d] # CONNECTING
  /\ readyState' = [readyState EXCEPT ![c] = OPEN]
  /\ sent' = <<>>
  /\ ev' = Event("connection", c, Null, <<>>, "", 0)
  /\ UNCHANGED <<issued, currentSession, role, sessions, sessionKeys, rateLimits,
                 now, ticks>>

\* the socket leaves OPEN (closing handshake begun or transport lost) before
\* its 'close' event is emitted
BeginClose(c) ==
  /\ readyState[c] = OPEN
  /\ readyState' = [readyState EXCEPT ![c] = CLOSING]
  /\ sent' = <<>>
  /\ ev' = Event("closing", c, Null, <<>>, "", 0)
  /\ UNCHANGED <<issued, currentSession, role, sessions, sessionKeys,
                 rateLimits, now, ticks>>

(* --------------------------- message handlers -------------------------- *)

\* case 'create-session' (lines 228-245)
CreateSession(c) ==
  /\ Receiving(c)
  /\ \E code \in generateSessionCode(sessions, issued) :
       /\ issued' = IF code > issued THEN code ELSE issued
       /\ sessions' = MapSet(sessions, code, NewSession(c, now, clientIP(c)))
       /\ sessionKeys' = KeysSet(sessionKeys, code)
       /\ currentSession' = [currentSession EXCEPT ![c] = code]
       /\ role' = [role EXCEPT ![c] = "client"]
       /\ sent' = Send(<<>>, readyState, c,
                       [type |-> "session-created", code |-> code])
       /\ ev' = Event("create-session", c, code, <<>>, "created", 0)
  /\ UNCHANGED <<readyState, rateLimits, now, ticks>>

\* lines 247-311 with the credential check moved ahead of the rate limiter
JoinOutcomeValidateFirst(c, code, key) ==
  IF ~validateAgentKey(key) THEN "auth-failed"
  ELSE IF ~checkRateLimit(rateLimits, clientIP(c), now).allowed THEN "rate-limited"
  ELSE IF SessionMissing(sessions, code) THEN "not-found"
  ELSE IF AgentConnected(sessions[code], readyState) THEN "agent-connected"
  ELSE "joined"

\* the outcome of a join-session from c for `code` with `key` (lines 247-311):
\* "rate-limited", "auth-failed", "not-found", "agent-connected" or "joined"
JoinOutcome(c, code, key) ==
  IF ~checkRateLimit(rateLimits, clientIP(c), now).allowed THEN "rate-limited"
  ELSE IF ~validateAgentKey(key) THEN "auth-failed"
  ELSE IF SessionMissing(sessions, code) THEN "not-found"
  ELSE IF AgentConnected(sessions[code], readyState) THEN "agent-connected"
  ELSE "joined"

\* the error reply of a failed join
JoinError(outcome, retryAfter) ==
  IF outcome = "rate-limited"
  THEN [type |-> "error", message |-> "Too many attempts", retryAfter |-> retryAfter]
  ELSE IF outcome = "auth-failed"
  THEN [type |-> "error", message |-> "Invalid agent credentials"]
  ELSE IF outcome = "not-found"
  THEN [type |-> "error", message |-> "Session not found or expired"]
  ELSE [type |-> "error", message |-> "Session already has an agent connected"]

\* the sends of a successful join (lines 313-321)
JoinSends(c, code, session) ==
  LET s1 == Send(<<>>, readyState, c, [type |-> "session-joined", code |-> code])
      s2 == IF PageTruthy(session.page)
            THEN Send(s1, readyState, c,
                      [type |-> "full-page", html |-> session.page,
                       passwordLength |-> OrZero(session.passwordLength)])
            ELSE s1
  IN Send(s2, readyState, session.client, [type |-> "agent-joined"])

\* case 'join-session' (lines 247-328)
JoinSession(c, code, key) ==
  /\ Receiving(c)
  /\ \E rateCheck \in {checkRateLimit(rateLimits, clientIP(c), now)},
        outcome \in {JoinOutcome(c, code, key)} :
        /\ rateLimits' = rateCheck.limits
        /\ ev' = Event("join-session", c, code, key, outcome,
                       IF outcome = "rate-limited" THEN rateCheck.n ELSE 0)
        /\ IF outcome = "joined"
           THEN /\ sessions' = [sessions EXCEPT ![code].agent = c]
                /\ currentSession' = [currentSession EXCEPT ![c] = code]
                /\ role' = [role EXCEPT ![c] = "agent"]
                /\ sent' = JoinSends(c, code, sessions[code])
           ELSE /\ sent' = Send(<<>>, readyState, c, JoinError(outcome, rateCheck.n))
                /\ UNCHANGED <<sessions, currentSession, role>>
  /\ UNCHANGED <<issued, readyState, sessionKeys, now, ticks>>

\* the guard of lines 332-334 without its role test
BoundAsAnyRole(c, r) ==
  currentSession[c] # Null /\ currentSession[c] \in DOMAIN sessions

\* `currentSession && role === r`, and the session is still in the registry
BoundAs(c, r) ==
  /\ currentSession[c] # Null
  /\ role[c] = r
  /\ currentSession[c] \in DOMAIN sessions

\* full-page bodies a client may send: (html, passwordLength or undefined);
\* the html of a page may be the empty string
FullPageInputs == {<<"h1", Undefined>>, <<"h2", 3>>, <<"", Undefined>>}

\* case 'full-page' (lines 330-342)
FullPage(c, html, passwordLength) ==
  /\ Receiving(c)
  /\ IF BoundAs(c, "client")
     THEN LET code == currentSession[c]
              sess == sessions[code]
              msg == [type |-> "full-page", html |-> html,
                      passwordLength |-> OrZero(passwordLength)]
          IN /\ sessions' = [sessions EXCEPT ![code].page = html,
                               ![code].passwordLength = OrZero(passwordLength)]
             /\ sent' = IF IsOpen(readyState, sess.agent)
                        THEN Send(<<>>, readyState, sess.agent, msg) ELSE <<>>
             /\ ev' = Event("full-page", c, code, <<>>, "stored", 0)
     ELSE /\ UNCHANGED sessions
          /\ sent' = <<>>
          /\ ev' = Event("full-page", c, currentSession[c], <<>>, "dropped", 0)
  /\ UNCHANGED <<issued, readyState, currentSession, role, sessionKeys,
                 rateLimits, now, ticks>>

\* case 'cursor-move' (lines 344-359)
CursorMove(c, x, y) ==
  /\ Receiving(c)
  /\ IF BoundAs(c, "client")
     THEN LET code == currentSession[c]
              sess == sessions[code]
          IN /\ sessions' = [sessions EXCEPT ![code].cursor = <<x, y>>]
             /\ sent' = IF IsOpen(readyState, sess.agent)
                        THEN Send(<<>>, readyState, sess.agent,
                                  [type |-> "cursor-move", x |-> x, y |-> y])
                        ELSE <<>>
             /\ ev' = Event("cursor-move", c, code, <<>>, "stored", 0)
     ELSE /\ UNCHANGED sessions
          /\ sent' = <<>>
          /\ ev' = Event("cursor-move", c, currentSession[c], <<>>, "dropped", 0)
  /\ UNCHANGED <<issued, readyState, currentSession, role, sessionKeys,
                 rateLimits, now, ticks>>

\* case 'voice-message' (lines 361-372)
VoiceMessage(c, text) ==
  /\ Receiving(c)
  /\ IF BoundAs(c, "client") /\ IsOpen(readyState, sessions[currentSession[c]].agent)
     THEN /\ sent' = Send(<<>>, readyState, sessions[currentSession[c]].agent,
                          [type |-> "voice-message", text |-> text])
          /\ ev' = Event("voice-message", c, currentSession[c], <<>>, "forwarded", 0)
     ELSE /\ sent' = <<>>
          /\ ev' = Event("voice-message", c, currentSession[c], <<>>, "dropped", 0)
  /\ UNCHANGED <<issued, readyState, currentSession, role, sessions,
                 sessionKeys, rateLimits, now, ticks>>

\* case 'ai-response' (lines 374-385)
AiResponse(c, text) ==
  /\ Receiving(c)
  /\ IF BoundAs(c, "agent") /\ IsOpen(readyState, sessions[currentSession[c]].client)
     THEN /\ sent' = Send(<<>>, readyState, sessions[currentSession[c]].client,
                          [type |-> "ai-response", text |-> text])
          /\ ev' = Event("ai-response", c, currentSession[c], <<>>, "forwarded", 0)
     ELSE /\ sent' = <<>>
          /\ ev' = Event("ai-response", c, currentSession[c], <<>>, "dropped", 0)
  /\ UNCHANGED <<issued, readyState, currentSession, role, sessions,
                 sessionKeys, rateLimits, now, ticks>>

\* the sends of end-session on `sess` (lines 391-396)
EndSends(sess) ==
  LET s1 == IF IsOpen(readyState, sess.client)
            THEN Send(<<>>, readyState, sess.client, [type |-> "session-ended"])
            ELSE <<>>
  IN IF IsOpen(readyState, sess.agent)
     THEN Send(s1, readyState, sess.agent, [type |-> "session-ended"])
     ELSE s1

\* case 'end-session' (lines 387-401)
EndSession(c) ==
  /\ Receiving(c)
  /\ IF currentSession[c] # Null /\ currentSession[c] \in DOMAIN sessions
     THEN /\ sent' = EndSends(sessions[currentSession[c]])
          /\ sessions' = MapDelete(sessions, currentSession[c])
          /\ sessionKeys' = KeysDelete(sessionKeys, currentSession[c])
          /\ ev' = Event("end-session", c, currentSession[c], <<>>, "ended", 0)
     ELSE /\ sent' = <<>>
          /\ UNCHANGED <<sessions, sessionKeys>>
          /\ ev' = Event("end-session", c, currentSession[c], <<>>, "dropped", 0)
  /\ UNCHANGED <<issued, readyState, currentSession, role, rateLimits,
                 now, ticks>>

\* lines 224-225 without the try/catch of lines 224, 403-405: the exception
\* of JSON.parse escapes the handler and the socket is torn down
MalformedCloses(c) ==
  /\ Receiving(c)
  /\ readyState' = [readyState EXCEPT ![c] = CLOSED]
  /\ sent' = <<>>
  /\ ev' = Event("malformed", c, Null, <<>>, "dropped", 0)
  /\ UNCHANGED <<issued, currentSession, role, sessions,
                 sessionKeys, rateLimits, now, ticks>>

\* a message that JSON.parse rejects (lines 224-225, 403-405)
Malformed(c) ==
  /\ Receiving(c)
  /\ sent' = <<>>
  /\ ev' = Event("malformed", c, Null, <<>>, "dropped", 0)
  /\ UNCHANGED <<issued, readyState, currentSession, role, sessions,
                 sessionKeys, rateLimits, now, ticks>>

(* ----------------------------- close handler --------------------------- *)

\* ws.on('close') (lines 408-427); the socket is CLOSED when it is emitted
OnClose(c) ==
  /\ Receiving(c)
  /\ readyState' = [readyState EXCEPT ![c] = CLOSED]
  /\ IF currentSession[c] # Null /\ currentSession[c] \in DOMAIN sessions
     THEN LET code == currentSession[c]
              session == sessions[code]
          IN IF role[c] = "client"
             THEN /\ sent' = IF IsOpen(readyState', session.agent)
                             THEN Send(<<>>, readyState', session.agent,
                                       [type |-> "client-disconnected"])
                             ELSE <<>>
                  /\ sessions' = MapDelete(sessions, code)
                  /\ sessionKeys' = KeysDelete(sessionKeys, code)
                  /\ ev' = Event("close", c, code, <<>>, "session-removed", 0)
             ELSE IF role[c] = "agent"
             THEN /\ sessions' = [sessions EXCEPT ![code].agent = Null]
                  /\ sent' = IF IsOpen(readyState', session.client)
                             THEN Send(<<>>, readyState', session.client,
                                       [type |-> "agent-disconnected"])
                             ELSE <<>>
                  /\ UNCHANGED sessionKeys
                  /\ ev' = Event("close", c, code, <<>>, "agent-cleared", 0)
             ELSE /\ sent' = <<>>
                  /\ UNCHANGED <<sessions, sessionKeys>>
                  /\ ev' = Event("close", c, code, <<>>, "none", 0)
     ELSE /\ sent' = <<>>
          /\ UNCHANGED <<sessions, sessionKeys>>
          /\ ev' = Event("close", c, currentSession[c], <<>>, "none", 0)
  /\ UNCHANGED <<issued, currentSession, role, rateLimits, now, ticks>>

(* -------------------------------- sweeper ------------------------------ *)

ExpiredMsg == [type |-> "session-ended", reason |-> "expired"]

\* lines 125-128 / 129-132: notify and close one peer if it is open;
\* acc carries the readyStates and the sends so far
NotifyExpired(acc, conn) ==
  IF IsOpen(acc.rs, conn)
  THEN [acc EXCEPT !.out = Send(acc.out, acc.rs, conn, ExpiredMsg),
                   !.rs = [acc.rs EXCEPT ![conn] = CLOSING]]
  ELSE acc

\* the loop body of cleanupExpiredSessions for one Map entry (lines 122-134)
SweepOne(acc, code, t) ==
  IF Expired(acc.sess[code], t)
  THEN LET a1 == NotifyExpired(acc, acc.sess[code].client)
           a2 == NotifyExpired(a1, acc.sess[code].agent)
       IN [a2 EXCEPT !.sess = MapDelete(a2.sess, code),
                     !.keys = KeysDelete(a2.keys, code)]
  ELSE acc

\* the for-of loop over the Map in insertion order, from entry i of `order`
RECURSIVE SweepFrom(_, _, _, _)
SweepFrom(acc, order, i, t) ==
  IF i > Len(order) THEN acc
  ELSE SweepFrom(SweepOne(acc, order[i], t), order, i + 1, t)

\* cleanupExpiredSessions() (lines 119-136)
cleanupExpiredSessions(t) ==
  SweepFrom([rs |-> readyState, out |-> <<>>, sess |-> sessions,
             keys |-> sessionKeys], sessionKeys, 1, t)

\* one firing of the sweep timer (line 139)
Sweep ==
  LET r == cleanupExpiredSessions(now) IN
  /\ readyState' = r.rs
  /\ sessions' = r.sess
  /\ sessionKeys' = r.keys
  /\ sent' = r.out
  /\ ev' = Event("sweep", Null, Null, <<>>, "", Len(sessionKeys) - Len(r.keys))
  /\ UNCHANGED <<issued, currentSession, role, rateLimits, now, ticks>>

(* ------------------------------ the engine ----------------------------- *)

\* the clock advances so that a session created at the previous reading is
\* seen exactly at its expiresAt, or just after it
ClockSteps == {SESSION_TIMEOUT_MS, SESSION_TIMEOUT_MS + 1}
CursorInputs == {<<10, 20>>}
TextInputs == {"t"}

\* The session lifecycle: every event that creates, joins, ends or removes a
\* session or changes a connection's state or binding.
Next ==
  \/ \E c \in Conns : Connect(c)
  \/ \E c \in Conns : BeginClose(c)
  \/ \E c \in Conns : CreateSession(c)
  \/ \E c \in Conns, code \in JoinCodes(issued), key \in JoinKeys : JoinSession(c, code, key)
  \/ \E c \in Conns : EndSession(c)
  \/ \E c \in Conns : OnClose(c)
  \/ Sweep
  \/ \E d \in ClockSteps : Tick(d, MaxTicks)

\* The audit log is written by logAudit and read by nothing.  The engine
\* specifications leave it out of their state; logAudit is specified on its
\* own in SpecAudit.
NoAudit == UNCHANGED auditLog

\* at most `max` events are handled, not counting those named in `free`
Budget(max, free) ==
  IF ev'.op \in free
  THEN steps' = steps
  ELSE steps < max /\ steps' = steps + 1

Spec == Init /\ [][Next /\ Budget(MaxSteps, {"connection"}) /\ NoAudit]_vars

\* The relay: the lifecycle events of the connections together with every
\* message that stores or forwards session content, at one clock reading.
NextRelay ==
  \/ \E c \in Conns : Connect(c)
  \/ \E c \in Conns : CreateSession(c)
  \/ \E c \in Conns, code \in JoinCodes(issued), key \in JoinKeys : JoinSession(c, code, key)
  \/ \E c \in Conns, m \in FullPageInputs : FullPage(c, m[1], m[2])
  \/ \E c \in Conns, p \in CursorInputs : CursorMove(c, p[1], p[2])
  \/ \E c \in Conns, text \in TextInputs : VoiceMessage(c, text)
  \/ \E c \in Conns, text \in TextInputs : AiResponse(c, text)
  \/ \E c \in Conns : EndSession(c)
  \/ \E c \in Conns : Malformed(c)
  \/ \E c \in Conns : OnClose(c)

SpecRelay == Init /\ [][NextRelay /\ Budget(MaxRelaySteps, {"connection"}) /\ NoAudit]_vars

\* The lifecycle again, one event deeper.
SpecDeep == Init /\ [][Next /\ Budget(MaxDeepSteps, {"connection"}) /\ NoAudit]_vars

(* ------------------------- the rate limiter alone ---------------------- *)

RateClockSteps == {1, RATE_LIMIT_WINDOW_MS - 1}

NextRate ==
  \/ \E ip \in IPs : CheckRateLimitCall(ip)
  \/ \E d \in RateClockSteps : Tick(d, MaxRateTicks)
  \/ RateLimitCleanup

SpecRate == Init /\ [][NextRate /\ UNCHANGED steps /\ NoAudit]_vars

\* The join endpoint: any number of join-session messages, while a bounded
\* number of sessions is created and the clock moves within and across
\* rate-limit windows.
NextJoin ==
  \/ \E c \in Conns : Connect(c)
  \/ \E c \in Conns : CreateSession(c)
  \/ \E c \in Conns, code \in JoinCodes(issued), key \in JoinKeys : JoinSession(c, code, key)
  \/ \E d \in RateClockSteps : Tick(d, MaxTicks)

SpecJoin == Init /\ [][NextJoin /\ Budget(MaxJoinSteps, {"connection", "join-session"}) /\ NoAudit]_vars

(* ------------------------- sessions over time -------------------------- *)

\* the clock advances by d ms; it keeps advancing for as long as a session
\* has not reached its expiresAt
TickLive(d) ==
  /\ \E code \in DOMAIN sessions : now <= sessions[code].expiresAt
  /\ now' = now + d
  /\ ticks' = ticks + 1
  /\ sent' = <<>>
  /\ ev' = Event("tick", Null, Null, <<>>, "", d)
  /\ UNCHANGED <<issued, readyState, currentSession, role, sessions,
                 sessionKeys, rateLimits>>

\* between two sweeps the clock passes the expiresAt of every session that
\* was live at the first
LiveClockSteps == {SESSION_TIMEOUT_MS + 1}

\* the joins carry the secret and the pages are not empty
LiveKeys == {JSString(AGENT_SECRET_KEY)}
LivePages == {<<"h1", Undefined>>}

\* Peer activity next to the clock and the sweep timer.
NextLive ==
  \/ \E c \in Conns : Connect(c)
  \/ \E c \in Conns : CreateSession(c)
  \/ \E c \in Conns, code \in JoinCodes(issued), key \in LiveKeys : JoinSession(c, code, key)
  \/ \E c \in Conns, in \in LivePages : FullPage(c, in[1], in[2])
  \/ \E c \in Conns : OnClose(c)
  \/ Sweep
  \/ \E d \in LiveClockSteps : TickLive(d)

\* the events that the clock and the timers produce
Timers == {"connection", "tick", "sweep"}

\* setInterval (line 139) keeps firing the sweep, and time keeps passing
SweepFires == Sweep /\ UNCHANGED steps /\ NoAudit
ClockAdvances == (\E d \in LiveClockSteps : TickLive(d)) /\ UNCHANGED steps /\ NoAudit

SpecLive ==
  /\ Init
  /\ [][NextLive /\ Budget(MaxLiveSteps, Timers) /\ NoAudit]_vars
  /\ WF_vars(SweepFires)
  /\ WF_vars(ClockAdvances)

(* --------------------------- validator alone --------------------------- *)

\* a call of validateAgentKey is about to be made with a key of KeyInputs
InitKey ==
  /\ readyState = [c \in Conns |-> CONNECTING]
  /\ currentSession = [c \in Conns |-> Null]
  /\ role = [c \in Conns |-> "null"]
  /\ sessions = <<>>
  /\ sessionKeys = <<>>
  /\ rateLimits = <<>>
  /\ issued = 0
  /\ now = 0
  /\ ticks = 0
  /\ steps = 0
  /\ sent = <<>>
  /\ \E key \in KeyInputs : ev = Event("input", Null, Null, key, "", 0)
  /\ auditLog = <<>>

\* the call validateAgentKey(key) returns
ValidateAgentKeyCall ==
  /\ ev.op = "input"
  /\ ev' = Event("validateAgentKey", Null, Null, ev.key,
                 IF validateAgentKey(ev.key) THEN "true" ELSE "false", 0)
  /\ UNCHANGED <<issued, readyState, currentSession, role, sessions,
                 sessionKeys, rateLimits, now, ticks, steps, sent, auditLog>>

NextKey == ValidateAgentKeyCall

SpecKey == InitKey /\ [][NextKey]_vars

(* --------------------------- audit log alone --------------------------- *)

\* line 102 with pop() for shift(): the newest entry is dropped
logAuditDropNewest(log, entry) ==
  LET pushed == Append(log, entry)
  IN IF Len(pushed) > AuditCapacity
     THEN SubSeq(pushed, 1, Len(pushed) - 1) ELSE pushed

\* logAudit(event, details) (lines 92-105): the array after the call
logAudit(log, entry) ==
  LET pushed == Append(log, entry)
  IN IF Len(pushed) > AuditCapacity THEN Tail(pushed) ELSE pushed

\* the events the program records
AuditEvents ==
  <<"SESSION_EXPIRED", "CONNECTION_REJECTED", "SESSION_CREATED",
    "RATE_LIMITED", "AUTH_FAILED", "JOIN_FAILED", "AGENT_JOINED">>

\* one call of logAudit; the details carry the number of the call, and the
\* events are taken in turn
LogAuditCall ==
  /\ steps < MaxAuditCalls
  /\ steps' = steps + 1
  /\ auditLog' = logAudit(auditLog,
                          [timestamp |-> now,
                           event |-> AuditEvents[(steps % Len(AuditEvents)) + 1],
                           details |-> steps + 1])
  /\ sent' = <<>>
  /\ ev' = Event("logAudit", Null, Null, <<>>, "", steps + 1)
  /\ UNCHANGED <<issued, readyState, currentSession, role, sessions,
                 sessionKeys, rateLimits, now, ticks>>

NextAudit == LogAuditCall

SpecAudit == Init /\ [][NextAudit]_vars

(* ======================================================================= *)
(*                               The claims                                *)
(* ======================================================================= *)

\* the connections bound (code, agent) that are open
OpenAgentsOf(code) ==
  {c \in Conns : readyState[c] = OPEN /\ currentSession[c] = code
                 /\ role[c] = "agent"}

\* C1: once the close event of a connection has been handled, no session
\* whose presenter is that connection is left in the registry.
C1_PresenterCloseRemovesItsSessions ==
  \A c \in Conns :
    readyState[c] = CLOSED =>
      \A code \in DOMAIN sessions : sessions[code].client # c

\* C2: every live session has at most one open connection whose binding is
\* (the session's code, agent).
C2_AtMostOneOpenAgentBinding ==
  \A code \in DOMAIN sessions : Cardinality(OpenAgentsOf(code)) <= 1

\* C3: a create-session step allocates a code that no live session has, so it
\* adds one record to the registry and leaves every existing record as it was.
C3_CreateAllocatesFreshCode ==
  [][ev'.op = "create-session" =>
       /\ ev'.code \notin DOMAIN sessions
       /\ DOMAIN sessions' = DOMAIN sessions \cup {ev'.code}
       /\ \A code \in DOMAIN sessions : sessions'[code] = sessions[code]
       /\ sessions'[ev'.code].client = ev'.conn]_vars

\* C3 witness: a session was just created while another session was live.
C3_Witness ==
  /\ ev.op = "create-session"
  /\ Cardinality(DOMAIN sessions) >= 2
  /\ \E code \in DOMAIN sessions : code # ev.code

\* the step sent exactly one message: the error `text`, to connection c
OnlyErrorReply(c, text) ==
  /\ Len(sent') = 1
  /\ sent'[1].to = c
  /\ sent'[1].msg = [type |-> "error", message |-> text]

\* the registry, every binding and every socket are as before the step
RegistryAndBindingsUnchanged ==
  /\ sessions' = sessions
  /\ sessionKeys' = sessionKeys
  /\ currentSession' = currentSession
  /\ role' = role
  /\ readyState' = readyState

\* C4: a full-page message from a connection bound with role agent changes no
\* session record (snapshot and passwordLength included) and sends nothing.
C4_AgentFullPageDropped ==
  [][(/\ ev'.op = "full-page"
      /\ currentSession[ev'.conn] # Null
      /\ role[ev'.conn] = "agent")
     => sessions' = sessions /\ sent' = <<>>]_vars

\* C4 witness: the joined agent of a live session that holds a stored
\* snapshot and an open presenter has just sent full-page.
C4_Witness ==
  /\ ev.op = "full-page"
  /\ role[ev.conn] = "agent"
  /\ ev.code \in DOMAIN sessions
  /\ sessions[ev.code].agent = ev.conn
  /\ sessions[ev.code].client # ev.conn
  /\ readyState[sessions[ev.code].client] = OPEN
  /\ sessions[ev.code].page # NullPage

\* C5: a join-session that passes the rate limit and the credential check is
\* answered 'Session not found or expired' when no live session has the code,
\* and 'Session already has an agent connected' when the session's agent slot
\* holds an open connection; either way the registry, the bindings and the
\* sockets are unchanged.
C5_JoinFailures ==
  [][(/\ ev'.op = "join-session"
      /\ checkRateLimit(rateLimits, clientIP(ev'.conn), now).allowed
      /\ validateAgentKey(ev'.key))
     => /\ ev'.code \notin DOMAIN sessions
             => /\ OnlyErrorReply(ev'.conn, "Session not found or expired")
                /\ RegistryAndBindingsUnchanged
        /\ (/\ ev'.code \in DOMAIN sessions
            /\ sessions[ev'.code].agent # Null
            /\ readyState[sessions[ev'.code].agent] = OPEN)
             => /\ OnlyErrorReply(ev'.conn,
                                  "Session already has an agent connected")
                /\ RegistryAndBindingsUnchanged]_vars

\* C5 witness: an open connection with the right key has just been refused a
\* live session whose agent slot holds an open connection.
C5_Witness ==
  /\ ev.op = "join-session"
  /\ ev.result = "agent-connected"
  /\ validateAgentKey(ev.key)
  /\ readyState[ev.conn] = OPEN
  /\ ev.code \in DOMAIN sessions
  /\ sessions[ev.code].agent # Null
  /\ readyState[sessions[ev.code].agent] = OPEN
  /\ Len(sent) = 1
  /\ sent[1].delivered

\* C6: when the connection held in a session's agent slot closes, the session
\* stays in the registry with its slot cleared, and its presenter, if open,
\* is sent agent-disconnected.
C6_AgentCloseClearsSlot ==
  [][ev'.op = "close" =>
       \A code \in DOMAIN sessions :
         sessions[code].agent = ev'.conn =>
           /\ code \in DOMAIN sessions'
           /\ sessions'[code].agent = Null
           /\ readyState'[sessions[code].client] = OPEN =>
                \E i \in 1..Len(sent') :
                  /\ sent'[i].to = sessions[code].client
                  /\ sent'[i].msg = [type |-> "agent-disconnected"]]_vars

\* how many session-ended{reason: expired} messages `out` holds for c
CountExpired(out, c) ==
  Cardinality({i \in 1..Len(out) : out[i].to = c /\ out[i].msg = ExpiredMsg})

\* c is a peer of a session whose expiresAt has passed
PeerOfExpired(c) ==
  \E code \in DOMAIN sessions :
    /\ now > sessions[code].expiresAt
    /\ (sessions[code].client = c \/ sessions[code].agent = c)

\* C7: a sweep removes exactly the sessions whose expiresAt has passed and
\* sends session-ended{reason: expired} once to each of their peers that is
\* open, and to nobody else; only a sweep sends that message, only to an open
\* connection, which it closes; and a connection that has left OPEN never
\* returns to it, so no connection is sent the message a second time.
C7_ExpiredSessionsSweptOnce ==
  [][/\ ev'.op = "sweep" =>
          /\ \A code \in DOMAIN sessions :
               (now > sessions[code].expiresAt) <=> (code \notin DOMAIN sessions')
          /\ \A code \in DOMAIN sessions' : sessions'[code] = sessions[code]
          /\ \A c \in Conns :
               CountExpired(sent', c) =
                 IF readyState[c] = OPEN /\ PeerOfExpired(c) THEN 1 ELSE 0
     /\ \A i \in 1..Len(sent') :
          sent'[i].msg = ExpiredMsg =>
            /\ ev'.op = "sweep"
            /\ readyState[sent'[i].to] = OPEN
            /\ readyState'[sent'[i].to] = CLOSING
     /\ \A c \in Conns :
          readyState[c] \in {CLOSING, CLOSED} => readyState'[c] # OPEN]_vars

\* C7 witness: a sweep has just removed an expired session and notified its
\* presenter and its agent, two different connections, both open until then.
C7_Witness ==
  /\ ev.op = "sweep"
  /\ ev.n = 1
  /\ Len(sent) = 2
  /\ sent[1].to # sent[2].to
  /\ sent[1].msg = ExpiredMsg /\ sent[1].delivered
  /\ sent[2].msg = ExpiredMsg /\ sent[2].delivered
  /\ readyState[sent[1].to] = CLOSING
  /\ readyState[sent[2].to] = CLOSING

\* origin ip has a record whose window, begun less than RATE_LIMIT_WINDOW_MS
\* ago, is still running
InWindow(ip) ==
  /\ ip \in DOMAIN rateLimits
  /\ now - rateLimits[ip].windowStart < RATE_LIMIT_WINDOW_MS

\* C8: the first checkRateLimit of an origin without a record is allowed and
\* stores attempts = 1; a call within the running window is allowed exactly
\* when fewer than MAX_JOIN_ATTEMPTS calls were allowed in it, and then
\* counts one more attempt; every other call within the window is denied with
\* a strictly positive retryAfter and changes nothing; the stored attempts
\* counter stays within 1..MAX_JOIN_ATTEMPTS.  Hence exactly
\* MAX_JOIN_ATTEMPTS consecutive calls are allowed.
C8_ExactlyMaxAttemptsAllowed ==
  [][/\ ev'.op = "checkRateLimit" =>
          /\ ev'.code \notin DOMAIN rateLimits =>
               /\ ev'.result = "allowed"
               /\ rateLimits'[ev'.code] = [attempts |-> 1, windowStart |-> now]
          /\ InWindow(ev'.code) =>
               IF rateLimits[ev'.code].attempts < MAX_JOIN_ATTEMPTS
               THEN /\ ev'.result = "allowed"
                    /\ rateLimits'[ev'.code] =
                         [attempts |-> rateLimits[ev'.code].attempts + 1,
                          windowStart |-> rateLimits[ev'.code].windowStart]
               ELSE /\ ev'.result = "denied"
                    /\ ev'.n > 0
                    /\ rateLimits' = rateLimits
     /\ \A ip \in DOMAIN rateLimits' :
          rateLimits'[ip].attempts \in 1..MAX_JOIN_ATTEMPTS]_vars

\* C8 witness: a call has just been denied, with a positive retryAfter, after
\* MAX_JOIN_ATTEMPTS allowed calls, later in the same window.
C8_Witness ==
  /\ ev.op = "checkRateLimit"
  /\ ev.result = "denied"
  /\ ev.n > 0
  /\ InWindow(ev.code)
  /\ now > rateLimits[ev.code].windowStart
  /\ rateLimits[ev.code].attempts = MAX_JOIN_ATTEMPTS

\* C9: once RATE_LIMIT_WINDOW_MS has elapsed since the windowStart of an
\* exhausted origin (now - windowStart >= RATE_LIMIT_WINDOW_MS), its next
\* checkRateLimit is allowed and starts a new window with attempts = 1.
C9_WindowElapsedResets ==
  [][(/\ ev'.op = "checkRateLimit"
      /\ ev'.code \in DOMAIN rateLimits
      /\ rateLimits[ev'.code].attempts >= MAX_JOIN_ATTEMPTS
      /\ now - rateLimits[ev'.code].windowStart >= RATE_LIMIT_WINDOW_MS)
     => /\ ev'.result = "allowed"
        /\ rateLimits'[ev'.code] = [attempts |-> 1, windowStart |-> now]]_vars

\* C10: a join-session from an origin that is exhausted within its window is
\* answered 'Too many attempts' whatever its key and code, and changes neither
\* the registry, the bindings nor the rate-limit record; a join-session with a
\* wrong secret is either refused by the rate limiter or answered 'Invalid
\* agent credentials' after one slot of its origin has been consumed, and
\* never changes the registry or the bindings.
C10_RateLimiterBeforeValidator ==
  [][ev'.op = "join-session" =>
       LET ip == clientIP(ev'.conn) IN
       /\ (InWindow(ip) /\ rateLimits[ip].attempts >= MAX_JOIN_ATTEMPTS) =>
            /\ ev'.result = "rate-limited"
            /\ Len(sent') = 1
            /\ sent'[1].to = ev'.conn
            /\ sent'[1].msg.message = "Too many attempts"
            /\ rateLimits' = rateLimits
            /\ RegistryAndBindingsUnchanged
       /\ ev'.key # JSString(AGENT_SECRET_KEY) =>
            /\ ev'.result \in {"rate-limited", "auth-failed"}
            /\ RegistryAndBindingsUnchanged
            /\ ev'.result = "auth-failed" =>
                 /\ OnlyErrorReply(ev'.conn, "Invalid agent credentials")
                 /\ rateLimits'[ip].attempts =
                      IF /\ ip \in DOMAIN rateLimits
                         /\ rateLimits'[ip].windowStart = rateLimits[ip].windowStart
                      THEN rateLimits[ip].attempts + 1
                      ELSE 1]_vars

\* C10 witness: a join-session with the correct secret, for a live session
\* with an empty agent slot, has just been refused by the rate limiter.
C10_Witness ==
  /\ ev.op = "join-session"
  /\ ev.result = "rate-limited"
  /\ ev.key = JSString(AGENT_SECRET_KEY)
  /\ readyState[ev.conn] = OPEN
  /\ ev.code \in DOMAIN sessions
  /\ sessions[ev.code].agent = Null
  /\ currentSession[ev.conn] = Null

\* C12: a create-session or join-session from a connection that already has a
\* (code, role) binding is dropped: the registry is unchanged, so no session
\* is created or joined, and no binding changes.
C12_BoundCreateJoinDropped ==
  [][(/\ ev'.op \in {"create-session", "join-session"}
      /\ currentSession[ev'.conn] # Null)
     => /\ sessions' = sessions
        /\ currentSession' = currentSession
        /\ role' = role]_vars

\* C13: a message that cannot be parsed changes nothing: the registry, the
\* rate-limit map, every binding and every socket state are as before, and
\* nothing is sent; the sender stays able to have later messages handled.
C13_MalformedChangesNothing ==
  [][ev'.op = "malformed" =>
       /\ RegistryAndBindingsUnchanged
       /\ rateLimits' = rateLimits
       /\ sent' = <<>>
       /\ readyState'[ev'.conn] \in {OPEN, CLOSING}]_vars

\* C13 witness: an open presenter whose live session has an open agent has
\* just sent a malformed message.
C13_Witness ==
  /\ ev.op = "malformed"
  /\ readyState[ev.conn] = OPEN
  /\ role[ev.conn] = "client"
  /\ currentSession[ev.conn] \in DOMAIN sessions
  /\ sessions[currentSession[ev.conn]].client = ev.conn
  /\ IsOpen(readyState, sessions[currentSession[ev.conn]].agent)

\* C17: every message a step sends to a connection other than the one whose
\* event is being handled goes to a connection that is open.
C17_SendsOnlyToOpenDestinations ==
  \A i \in 1..Len(sent) : sent[i].to # ev.conn => sent[i].delivered

\* C18: the close event of an agent-bound connection c clears the agent slot
\* of c's session only if the slot holds c; if another connection holds it,
\* that connection stays the agent and no agent-disconnected is sent.
C18_CloseClearsOnlyOwnSlot ==
  [][(/\ ev'.op = "close"
      /\ role[ev'.conn] = "agent"
      /\ currentSession[ev'.conn] \in DOMAIN sessions
      /\ sessions[currentSession[ev'.conn]].agent # ev'.conn)
     => sessions' = sessions /\ sent' = <<>>]_vars

\* the session-ended notifications of an end-session for record `session`
SessionEndedTo(session) ==
  LET note(conn) == IF conn # Null /\ readyState[conn] = OPEN
                    THEN <<[to |-> conn, delivered |-> TRUE,
                            msg |-> [type |-> "session-ended"]]>>
                    ELSE <<>>
  IN note(session.client) \o note(session.agent)

\* connection c is bound as presenter to a code whose session, the one c
\* created, is no longer in the registry
PresenterOfRemovedSession(c) ==
  /\ currentSession[c] # Null
  /\ role[c] = "client"
  /\ \/ currentSession[c] \notin DOMAIN sessions
     \/ sessions[currentSession[c]].client # c

\* C16: an end-session from a peer of a live session sends session-ended to
\* each open peer of that session and deletes exactly that record; once a
\* presenter's session has been removed, a later end-session or close event
\* of that presenter sends nothing and leaves the registry as it is.
C16_EndSessionIdempotent ==
  [][/\ (/\ ev'.op = "end-session"
         /\ currentSession[ev'.conn] \in DOMAIN sessions
         /\ ev'.conn \in {sessions[currentSession[ev'.conn]].client,
                          sessions[currentSession[ev'.conn]].agent})
        => /\ sent' = SessionEndedTo(sessions[currentSession[ev'.conn]])
           /\ sessions' = MapDelete(sessions, currentSession[ev'.conn])
     /\ (/\ ev'.op \in {"end-session", "close"}
         /\ PresenterOfRemovedSession(ev'.conn))
        => sessions' = sessions /\ sent' = <<>>]_vars

\* C19: a full-page, cursor-move, voice-message or end-session from a
\* connection bound as presenter changes a session record or reaches a peer
\* only if the record under its code is the session that connection created.
C19_SessionIsolation ==
  [][(/\ ev'.op \in {"full-page", "cursor-move", "voice-message", "end-session"}
      /\ role[ev'.conn] = "client"
      /\ currentSession[ev'.conn] \in DOMAIN sessions
      /\ sessions[currentSession[ev'.conn]].client # ev'.conn)
     => sessions' = sessions /\ sent' = <<>>]_vars

\* C11: on a successful join the joining connection is sent session-joined
\* first, then full-page with the stored snapshot and passwordLength exactly
\* when a snapshot has been stored, and then the presenter is sent
\* agent-joined; nothing else is sent.
C11_JoinSendOrder ==
  [][(ev'.op = "join-session" /\ ev'.result = "joined") =>
       LET c == ev'.conn
           session == sessions[ev'.code]
           joined == <<[to |-> c, delivered |-> readyState[c] = OPEN,
                        msg |-> [type |-> "session-joined", code |-> ev'.code]]>>
           snapshot == IF session.page # NullPage
                       THEN <<[to |-> c, delivered |-> readyState[c] = OPEN,
                               msg |-> [type |-> "full-page",
                                        html |-> session.page,
                                        passwordLength |-> session.passwordLength]]>>
                       ELSE <<>>
           notice == <<[to |-> session.client,
                        delivered |-> readyState[session.client] = OPEN,
                        msg |-> [type |-> "agent-joined"]]>>
       IN sent' = joined \o snapshot \o notice]_vars

\* C14: validateAgentKey returns true exactly when the provided key is the
\* configured secret, and false for every other input.
C14_ValidatorAcceptsOnlyTheSecret ==
  ev.op = "validateAgentKey" =>
    (ev.result = "true" <=> ev.key = JSString(AGENT_SECRET_KEY))

\* C15: after the n-th logAudit call the audit log holds min(n, 1000)
\* entries, and they are the entries of the last min(n, 1000) calls in the
\* order they were recorded: the oldest entry is the one evicted.
C15_AuditLogBounded ==
  ev.op = "logAudit" =>
    LET len == Len(auditLog) IN
    /\ len <= 1000
    /\ len = IF ev.n <= 1000 THEN ev.n ELSE 1000
    /\ \A i \in 1..len : auditLog[i].details = ev.n - len + i

\* C15 witness: the log is full and entries have been evicted; its first
\* entry is the 1000th most recent one and its last entry the latest.
C15_Witness ==
  /\ ev.op = "logAudit"
  /\ ev.n > 1001
  /\ Len(auditLog) = 1000
  /\ auditLog[1].details = ev.n - 999
  /\ auditLog[1000].details = ev.n

\* C20: no step changes the createdAt or expiresAt of a live session, and a
\* new session gets expiresAt = now + SESSION_TIMEOUT_MS; and, with the clock
\* advancing and the sweep timer firing, every code in the registry
\* eventually leaves it, whatever the peers do.
C20_EverySessionEventuallyRemoved ==
  /\ [][\A code \in DOMAIN sessions' :
          IF code \in DOMAIN sessions
          THEN /\ sessions'[code].expiresAt = sessions[code].expiresAt
               /\ sessions'[code].createdAt = sessions[code].createdAt
          ELSE /\ sessions'[code].createdAt = now
               /\ sessions'[code].expiresAt = now + SESSION_TIMEOUT_MS]_vars
  /\ \A code \in Codes :
       (code \in DOMAIN sessions) ~> (code \notin DOMAIN sessions)

\* C20 witness: a sweep has just removed a session that an agent had joined
\* and whose agent was still open, more than SESSION_TIMEOUT_MS after the
\* start.
C20_Witness ==
  /\ ev.op = "sweep"
  /\ ev.n >= 1
  /\ now > SESSION_TIMEOUT_MS
  /\ \E i \in 1..Len(sent) : role[sent[i].to] = "agent"
  /\ sessions = <<>>

====
